---- MODULE Spec2Model ----
(***************************************************************************)
(* lasso-unpack: the walk of a Lasso bundle's syntax tree that builds one  *)
(* Stats record per visited call expression and writes lasso-stats.json.   *)
(*                                                                         *)
(* A JavaScript string is a sequence of one-character strings, so that     *)
(* split, join, includes, replace and slice are computed as the code       *)
(* computes them.  A verb (the name of the accessed property) is only ever *)
(* compared for equality and is kept as a TLA+ string.                     *)
(***************************************************************************)
EXTENDS Integers, Sequences, FiniteSets, TLC

(* ------------------------------------------------------------------ *)
(* Bounds of the model                                                 *)
(* ------------------------------------------------------------------ *)

\* most call expressions in a file of the multi-call inputs
MaxCalls == 2
\* most "/"-separated segments of a path literal of the single-call inputs
MaxSegs == 4

(* ------------------------------------------------------------------ *)
(* JavaScript string and array primitives                              *)
(* ------------------------------------------------------------------ *)

\* the empty string ''
Empty == << >>

\* String.prototype.includes(c), c one character
Includes(s, c) == \E i \in 1..Len(s) : s[i] = c

\* String.prototype.indexOf(c), 1-based; 0 when c does not occur
IndexOfChar(s, c) ==
    IF Includes(s, c)
    THEN CHOOSE i \in 1..Len(s) : s[i] = c /\ \A j \in 1..(i - 1) : s[j] # c
    ELSE 0

\* String.prototype.split(c), c one character: "".split(c) is [""]
RECURSIVE Split(_, _)
Split(s, c) ==
    LET i == IndexOfChar(s, c)
    IN  IF i = 0
        THEN << s >>
        ELSE << SubSeq(s, 1, i - 1) >> \o Split(SubSeq(s, i + 1, Len(s)), c)

\* Array.prototype.join(c)
RECURSIVE Join(_, _)
Join(arr, c) ==
    IF Len(arr) = 0 THEN Empty
    ELSE IF Len(arr) = 1 THEN arr[1]
    ELSE arr[1] \o << c >> \o Join(Tail(arr), c)

\* String.prototype.indexOf(pat), 1-based; 0 when pat does not occur
IndexOfStr(s, pat) ==
    LET hits == { i \in 1..(Len(s) - Len(pat) + 1) :
                    SubSeq(s, i, i + Len(pat) - 1) = pat }
    IN  IF hits = {} THEN 0
        ELSE CHOOSE i \in hits : \A j \in hits : i <= j

\* String.prototype.replace(pat, rep) with a string pattern: the first
\* occurrence only
ReplaceFirst(s, pat, rep) ==
    LET i == IndexOfStr(s, pat)
    IN  IF i = 0 THEN s
        ELSE SubSeq(s, 1, i - 1) \o rep \o SubSeq(s, i + Len(pat), Len(s))

\* String.prototype.slice(start, end) with 0 <= start, end: the characters
\* at the 0-based offsets start .. end-1
Slice(text, start, end) ==
    LET e == IF end > Len(text) THEN Len(text) ELSE end
    IN  IF start >= e THEN Empty ELSE SubSeq(text, start + 1, e)

\* arr[i] || '' for an array of strings, i 0-based: an index past the end
\* reads undefined, and undefined and '' both give ''
ElemOrEmpty(arr, i) == IF i >= 0 /\ i < Len(arr) THEN arr[i + 1] ELSE Empty

(* ------------------------------------------------------------------ *)
(* Syntax nodes (acorn's ESTree), reduced to the fields the code reads *)
(* ------------------------------------------------------------------ *)

\* The value of a node.  kind "string": a string literal, str its text.
\* kind "truthy": a literal whose value is truthy and no string (a non-zero
\* number, a regular expression, true).  kind "falsy": a literal whose value
\* is falsy and no string (0, null, false).  kind "undefined": the node has
\* no value field (an identifier, a function).
StringValue(str) == [kind |-> "string", str |-> str]
TruthyValue == [kind |-> "truthy", str |-> Empty]
FalsyValue == [kind |-> "falsy", str |-> Empty]
NoValue == [kind |-> "undefined", str |-> Empty]

\* a node without a body
NoBody == [present |-> FALSE, start |-> 0, end |-> 0]
Body(start, end) == [present |-> TRUE, start |-> start, end |-> end]

\* argument nodes; the body of a function is given relative to the start of
\* the argument until the file is laid out: function(){x} and ()=>x.
\* inner holds the call expressions written inside the node: their callees
\* until the file is laid out, their nodes afterwards.
StringLiteral(str) ==
    [type |-> "Literal", value |-> StringValue(str), body |-> NoBody, inner |-> << >>]
TruthyLiteral ==
    [type |-> "Literal", value |-> TruthyValue, body |-> NoBody, inner |-> << >>]
FalsyLiteral ==
    [type |-> "Literal", value |-> FalsyValue, body |-> NoBody, inner |-> << >>]
IdentifierArg ==
    [type |-> "Identifier", value |-> NoValue, body |-> NoBody, inner |-> << >>]
FunctionArg ==
    [type |-> "FunctionExpression", value |-> NoValue, body |-> Body(10, 13),
     inner |-> << >>]
ArrowArg ==
    [type |-> "ArrowFunctionExpression", value |-> NoValue, body |-> Body(4, 5),
     inner |-> << >>]

\* the property of a member expression; none for another callee
Property(type, name) == [type |-> type, name |-> name]
NoProperty == [type |-> "none", name |-> ""]

\* callees: receiver.verb, receiver[verb] (computed, the property is still an
\* Identifier node), receiver["verb"] (the property is a Literal node),
\* a function expression (an immediately invoked function), a plain identifier
MemberCallee(verb) ==
    [type |-> "MemberExpression", computed |-> FALSE,
     property |-> Property("Identifier", verb), inner |-> << >>]
ComputedMemberCallee(verb) ==
    [type |-> "MemberExpression", computed |-> TRUE,
     property |-> Property("Identifier", verb), inner |-> << >>]
LiteralMemberCallee(verb) ==
    [type |-> "MemberExpression", computed |-> TRUE,
     property |-> Property("Literal", verb), inner |-> << >>]
FunctionCallee ==
    [type |-> "FunctionExpression", computed |-> FALSE, property |-> NoProperty,
     inner |-> << >>]
IdentifierCallee ==
    [type |-> "Identifier", computed |-> FALSE, property |-> NoProperty,
     inner |-> << >>]

\* callees that hold a call: inner().verb (a chain) and
\* (function(){inner()}) (an immediately invoked function that calls)
ChainCallee(verb, inner) ==
    [type |-> "MemberExpression", computed |-> FALSE,
     property |-> Property("Identifier", verb), inner |-> << inner >>]
FunctionCalleeCalling(inner) ==
    [type |-> "FunctionExpression", computed |-> FALSE, property |-> NoProperty,
     inner |-> << inner >>]

\* a call expression spanning the offsets start .. end of the source text
CallNode(callee, args, start, end) ==
    [type |-> "CallExpression", callee |-> callee, arguments |-> args,
     start |-> start, end |-> end]

\* a call as written, before it has a place in a file
Shape(callee, args) == [callee |-> callee, arguments |-> args]

(* ------------------------------------------------------------------ *)
(* acorn.parse: the offsets of the nodes of a file                     *)
(* ------------------------------------------------------------------ *)

\* the number of characters a callee takes: m.def, m["def"],
\* (function(){}), f; a call written inside takes the place of the receiver
\* m, or goes between the braces
RECURSIVE CalleeWidth(_)
CalleeWidth(callee) ==
    LET inner == IF Len(callee.inner) = 0 THEN 0
                 ELSE CalleeWidth(callee.inner[1]) + 2
    IN  IF callee.type = "MemberExpression"
        THEN (IF inner = 0 THEN 1 ELSE inner)
             + (IF callee.property.type = "Literal" THEN 7 ELSE 4)
        ELSE IF callee.type = "FunctionExpression" THEN 14 + inner
        ELSE 1

\* the number of characters of the call callee() without arguments
CallWidth(callee) == CalleeWidth(callee) + 2

\* arguments that hold a call: function(){inner()} and inner()
FunctionArgCalling(inner) ==
    [type |-> "FunctionExpression", value |-> NoValue,
     body |-> Body(10, 12 + CallWidth(inner)), inner |-> << inner >>]
CallArg(inner) ==
    [type |-> "CallExpression", value |-> NoValue, body |-> NoBody,
     inner |-> << inner >>]

\* the number of characters an argument takes: "str", function(){x}, ()=>x,
\* function(){inner()}, inner(), and one character for an identifier or
\* another literal
Width(arg) ==
    IF arg.type = "Literal" /\ arg.value.kind = "string" THEN Len(arg.value.str) + 2
    ELSE IF arg.type = "FunctionExpression"
    THEN (IF Len(arg.inner) = 0 THEN 13 ELSE 12 + CallWidth(arg.inner[1]))
    ELSE IF arg.type = "ArrowFunctionExpression" THEN 5
    ELSE IF arg.type = "CallExpression" THEN CallWidth(arg.inner[1])
    ELSE 1

\* the node of the call callee() written at offset off inside another call
PlaceInner(callee, off) == CallNode(callee, << >>, off, off + CallWidth(callee))

\* the arguments, separated by ",", the first starting at offset off
RECURSIVE PlaceArgs(_, _)
PlaceArgs(args, off) ==
    IF Len(args) = 0 THEN << >>
    ELSE
        LET arg == Head(args)
            at == IF arg.type = "FunctionExpression" THEN off + 11 ELSE off
            placed ==
                [arg EXCEPT
                    !.body = IF arg.body.present
                             THEN Body(off + arg.body.start, off + arg.body.end)
                             ELSE arg.body,
                    !.inner = IF Len(arg.inner) = 0 THEN << >>
                              ELSE << PlaceInner(arg.inner[1], at) >>]
        IN  << placed >> \o PlaceArgs(Tail(args), off + Width(arg) + 1)

RECURSIVE ArgsWidth(_)
ArgsWidth(args) ==
    IF Len(args) = 0 THEN 0
    ELSE IF Len(args) = 1 THEN Width(args[1])
    ELSE Width(args[1]) + 1 + ArgsWidth(Tail(args))

\* callee(args) starting at offset off
PlaceCall(shape, off) ==
    LET open == off + CalleeWidth(shape.callee)
        at == IF shape.callee.type = "FunctionExpression" THEN off + 12 ELSE off
        callee ==
            [shape.callee EXCEPT
                !.inner = IF Len(shape.callee.inner) = 0 THEN << >>
                          ELSE << PlaceInner(shape.callee.inner[1], at) >>]
    IN  CallNode(callee, PlaceArgs(shape.arguments, open + 1),
                 off, open + 1 + ArgsWidth(shape.arguments) + 1)

\* the calls of a file in source order, each an expression statement
\* followed by ";", the first starting at offset off
RECURSIVE PlaceCalls(_, _)
PlaceCalls(shapes, off) ==
    IF Len(shapes) = 0 THEN << >>
    ELSE
        LET node == PlaceCall(Head(shapes), off)
        IN  << node >> \o PlaceCalls(Tail(shapes), node.end + 1)

(* ------------------------------------------------------------------ *)
(* lib/stats.js                                                        *)
(* ------------------------------------------------------------------ *)

\* new Stats(): every field is the empty string
NewStats ==
    [type |-> "", fileName |-> Empty, packageName |-> Empty, content |-> Empty,
     version |-> Empty, size |-> Empty, path |-> Empty]

setType(stats, type) == [stats EXCEPT !.type = type]
getType(stats) == stats.type
setPath(stats, path) == [stats EXCEPT !.path = path]
setSize(stats, size) == [stats EXCEPT !.size = size]
setFileName(stats, fileName) == [stats EXCEPT !.fileName = fileName]
setPackageName(stats, packageName) == [stats EXCEPT !.packageName = packageName]
setVersion(stats, version) == [stats EXCEPT !.version = version]
setContent(stats, content) == [stats EXCEPT !.content = content]

(* ------------------------------------------------------------------ *)
(* lib/utils.js                                                        *)
(* ------------------------------------------------------------------ *)

isMemberExpression(node) == node.callee.type = "MemberExpression"

isFunctionExpression(node) == node.callee.type = "FunctionExpression"

getArguments(node) == node.arguments

\* validLiteral(element[i]), i 0-based: false for a missing argument
validLiteral(args, i) ==
    /\ i < Len(args)
    /\ args[i + 1].type = "Literal"
    /\ args[i + 1].value.kind = "string"

\* isValidFunctionExpression without the test of node.type
isValidFunctionExpressionAnyBody(args, i) ==
    /\ i < Len(args)
    /\ args[i + 1].body.present

\* isValidFunctionExpression(args[i]), i 0-based
isValidFunctionExpression(args, i) ==
    /\ i < Len(args)
    /\ args[i + 1].type = "FunctionExpression"
    /\ args[i + 1].body.present

\* the 0-based index of the first element that includes "$", else 0
validIndex(array) ==
    IF \E i \in 1..Len(array) : Includes(array[i], "$")
    THEN (CHOOSE i \in 1..Len(array) :
            /\ Includes(array[i], "$")
            /\ \A j \in 1..(i - 1) : ~Includes(array[j], "$")) - 1
    ELSE 0

extractLiteralFromInstalled(stats, element) ==
    IF Len(element) = 0 THEN stats
    ELSE
        LET s1 == IF validLiteral(element, 0)
                  THEN setPackageName(stats, element[1].value.str) ELSE stats
            s2 == IF validLiteral(element, 1)
                  THEN setFileName(s1, element[2].value.str) ELSE s1
            s3 == IF validLiteral(element, 2)
                  THEN setVersion(s2, element[3].value.str) ELSE s2
        IN  s3

\* extractLiteralFromDef with the file name taken from the last segment alone
extractLiteralFromDefLastSegment(stats, args) ==
    IF validLiteral(args, 0)
    THEN
        LET arrayLiteral == Split(args[1].value.str, "/")
            length == Len(arrayLiteral)
            index == validIndex(arrayLiteral)
            parts == Split(arrayLiteral[index + 1], "$")
            s1 == setPackageName(stats, parts[1])
            s2 == setVersion(s1, ElemOrEmpty(parts, 1))
        IN  setFileName(s2, arrayLiteral[length])
    ELSE stats

\* element is args[0]; the caller passes args, which is not empty
extractLiteralFromDef(stats, args) ==
    IF validLiteral(args, 0)
    THEN
        LET arrayLiteral == Split(args[1].value.str, "/")
            length == Len(arrayLiteral)
            index == validIndex(arrayLiteral)
            parts == Split(arrayLiteral[index + 1], "$")
            s1 == setPackageName(stats, parts[1])
            s2 == setVersion(s1, ElemOrEmpty(parts, 1))
        IN  setFileName(s2, Join(SubSeq(arrayLiteral, index + 2, length), "/"))
    ELSE stats

\* element.value.split is read on a value that is truthy, differs from ''
\* and is no string: a TypeError
extractLiteralFromMainThrows(args) == args[1].value.kind = "truthy"

\* extractLiteralFromMain with the file name taken from the second argument
extractLiteralFromMainSecondArg(stats, args) ==
    IF args[1].value.kind = "string" /\ args[1].value.str # Empty
    THEN
        LET value == args[1].value.str
            arrayOfValues == Split(value, "/")
            packageName == IF arrayOfValues[1] = Empty
                           THEN arrayOfValues[2] ELSE arrayOfValues[1]
            parts == Split(packageName, "$")
            s1 == setPackageName(stats, parts[1])
            s2 == setVersion(s1, ElemOrEmpty(parts, 1))
        IN  IF validLiteral(args, 1) THEN setFileName(s2, args[2].value.str) ELSE s2
    ELSE stats

\* element is args[0]; the caller passes args, which is not empty
extractLiteralFromMain(stats, args) ==
    IF args[1].value.kind = "string" /\ args[1].value.str # Empty
    THEN
        LET value == args[1].value.str
            arrayOfValues == Split(value, "/")
            packageName == IF arrayOfValues[1] = Empty
                           THEN arrayOfValues[2] ELSE arrayOfValues[1]
            fileName == ReplaceFirst(value, packageName \o << "/" >>, Empty)
            parts == Split(packageName, "$")
            s1 == setPackageName(stats, parts[1])
            s2 == setVersion(s1, ElemOrEmpty(parts, 1))
        IN  setFileName(s2, fileName)
    ELSE stats

(* ------------------------------------------------------------------ *)
(* lib/lasso-unpack.js: the visitor of a call expression               *)
(* ------------------------------------------------------------------ *)

\* extractLiterals with a builtin call decoded like a main call
extractLiteralsBuiltinAsMain(stats, args) ==
    LET s1 == IF getType(stats) = "installed"
              THEN extractLiteralFromInstalled(stats, args) ELSE stats
        s2 == IF getType(s1) = "def"
              THEN extractLiteralFromDef(s1, args) ELSE s1
        s3 == IF getType(s2) = "main" \/ getType(s2) = "remap" \/ getType(s2) = "builtin"
              THEN extractLiteralFromMain(s2, args) ELSE s2
    IN  s3

\* extract literal from AST tree; args is not empty
extractLiterals(stats, args) ==
    LET s1 == IF getType(stats) = "installed" \/ getType(stats) = "builtin"
              THEN extractLiteralFromInstalled(stats, args) ELSE stats
        s2 == IF getType(s1) = "def"
              THEN extractLiteralFromDef(s1, args) ELSE s1
        s3 == IF getType(s2) = "main" \/ getType(s2) = "remap"
              THEN extractLiteralFromMain(s2, args) ELSE s2
    IN  s3

\* extractContent with the slice taken from the function, not from its body
extractContentWholeFunction(fileContent, stats, args) ==
    IF isValidFunctionExpression(args, 1)
    THEN setContent(stats,
             Slice(fileContent, args[2].body.start - 10, args[2].body.end))
    ELSE stats

\* node is args[1]; body.start || 0 and body.end || 0 are the offsets
extractContent(fileContent, stats, args) ==
    IF isValidFunctionExpression(args, 1)
    THEN setContent(stats, Slice(fileContent, args[2].body.start, args[2].body.end))
    ELSE stats

\* the size of the record: node.start && node.end is false at offset 0
SizeOf(node) ==
    IF node.start # 0 /\ node.end # 0 THEN node.end - node.start ELSE 0

\* the verb the visitor gives the record of node
TypeOf(node) ==
    IF isMemberExpression(node) /\ node.callee.property.type = "Identifier"
    THEN node.callee.property.name
    ELSE ""

\* the visitor ends with a TypeError instead of a record
CallExpressionThrows(node) ==
    /\ Len(getArguments(node)) > 0
    /\ TypeOf(node) \in {"main", "remap"}
    /\ extractLiteralFromMainThrows(getArguments(node))

\* the visitor with the content extracted whatever the verb
CallExpressionContentAlways(node, fileContent) ==
    LET s1 == setSize(NewStats, SizeOf(node))
        s2 == IF isFunctionExpression(node)
              THEN setPath(setFileName(setPackageName(s1,
                       << "m", "o", "d", "u", "l", "e", ".", "j", "s" >>),
                       << "m", "o", "d", "u", "l", "e", ".", "j", "s" >>),
                       << "/", "m", "o", "d", "u", "l", "e", ".", "j", "s" >>)
              ELSE s1
        s3 == IF isMemberExpression(node) /\ node.callee.property.type = "Identifier"
              THEN setType(s2, node.callee.property.name)
              ELSE s2
        args == getArguments(node)
        s4 == IF Len(args) > 0 THEN extractLiterals(s3, args) ELSE s3
    IN  extractContent(fileContent, s4, args)

\* the record the visitor builds for node
CallExpression(node, fileContent) ==
    LET s1 == setSize(NewStats, SizeOf(node))
        s2 == IF isFunctionExpression(node)
              THEN setPath(setFileName(setPackageName(s1,
                       << "m", "o", "d", "u", "l", "e", ".", "j", "s" >>),
                       << "m", "o", "d", "u", "l", "e", ".", "j", "s" >>),
                       << "/", "m", "o", "d", "u", "l", "e", ".", "j", "s" >>)
              ELSE s1
        s3 == IF isMemberExpression(node) /\ node.callee.property.type = "Identifier"
              THEN setType(s2, node.callee.property.name)
              ELSE s2
        args == getArguments(node)
        s4 == IF Len(args) > 0 THEN extractLiterals(s3, args) ELSE s3
        s5 == IF getType(s4) = "def" THEN extractContent(fileContent, s4, args) ELSE s4
    IN  s5

\* the call expressions written inside the arguments args, in source order
RECURSIVE ArgsInner(_)
ArgsInner(args) ==
    IF Len(args) = 0 THEN << >> ELSE Head(args).inner \o ArgsInner(Tail(args))

\* the call expressions written inside node: in its callee, then in its
\* arguments
Children(node) == node.callee.inner \o ArgsInner(node.arguments)

\* a visitor that hands every child of node to the callback c
DescendAll(node) == Children(node)

\* the nodes the visitor hands to the callback c of walk.recursive: the
\* visitor takes c and never calls it
Descend(node) == << >>

\* walk.recursive over the top-level calls nodes: the nodes the visitor is
\* called on, in order; a call is walked further only through c
RECURSIVE WalkRecursive(_)
WalkRecursive(nodes) ==
    IF Len(nodes) = 0 THEN << >>
    ELSE << Head(nodes) >> \o WalkRecursive(Descend(Head(nodes)))
                          \o WalkRecursive(Tail(nodes))

\* the new record written over the last record of the list
PushOverLast(state, stats) ==
    IF Len(state) = 0 THEN << stats >>
    ELSE [state EXCEPT ![Len(state)] = stats]

\* walkState.unshift(stats) in the place of push
PushFront(state, stats) == << stats >> \o state

\* walkState.push(stats)
Push(state, stats) == Append(state, stats)

(* ------------------------------------------------------------------ *)
(* Input files                                                         *)
(* ------------------------------------------------------------------ *)

\* A file: whether acorn parses it, the number `other` of its top-level
\* statements that hold no call, the number `lead` of characters before its
\* first call, and its outermost calls in source order.
File(parses, other, lead, shapes) ==
    [parses |-> parses, other |-> other, lead |-> lead, shapes |-> shapes]

\* the outermost call expressions of the file, in source order
TopLevelCalls(file) == PlaceCalls(file.shapes, file.lead)

\* the call expressions of the file the walk visits, in the order it visits them
Calls(file) == WalkRecursive(TopLevelCalls(file))

\* ast.body.length
BodyLength(file) == file.other + Len(file.shapes)

\* the source text read from the file: the character at offset k is written k
FileContent(file) ==
    LET calls == TopLevelCalls(file)
        length == IF Len(calls) = 0 THEN file.lead
                  ELSE calls[Len(calls)].end + 1
    IN  [k \in 1..length |-> k - 1]

\* strings of the inputs
Str_a == << "a" >>
Str_b == << "b" >>
Str_1 == << "1" >>
Str_scope == << "@", "s" >>
Str_p1 == << "p", "$", "1" >>
Str_q12 == << "q", "$", "1", "$", "2" >>
Str_path == << "/", "p", "$", "1", "/", "a" >>
Str_slash_p1 == << "/", "p", "$", "1" >>

\* the segments of the path literals of the single-call inputs
SegPool == { Empty, Str_a, Str_scope, Str_p1, Str_q12 }

\* path literals: one to MaxSegs segments joined by "/"
RichPaths ==
    { Join(segs, "/") : segs \in UNION { [1..n -> SegPool] : n \in 1..MaxSegs } }

DefShape(path) == Shape(MemberCallee("def"), << StringLiteral(path), FunctionArg >>)
MainShape(path) == Shape(MemberCallee("main"), << StringLiteral(path), StringLiteral(Str_b) >>)

\* the calls of the single-call inputs
RichShapes == { DefShape(p) : p \in RichPaths } \cup { MainShape(p) : p \in RichPaths }

\* the calls of the multi-call inputs
BasicShapes ==
    { DefShape(Str_path),
      Shape(MemberCallee("def"), << StringLiteral(Str_path) >>),
      Shape(MemberCallee("def"), << IdentifierArg, FunctionArg >>),
      Shape(MemberCallee("def"), << StringLiteral(Str_path), ArrowArg >>),
      Shape(MemberCallee("installed"),
            << StringLiteral(Str_p1), StringLiteral(Str_a), StringLiteral(Str_1) >>),
      Shape(MemberCallee("installed"), << StringLiteral(Str_p1), IdentifierArg >>),
      Shape(MemberCallee("main"), << StringLiteral(Str_p1), StringLiteral(Str_a) >>),
      Shape(MemberCallee("main"), << StringLiteral(Str_slash_p1), StringLiteral(Str_a) >>),
      Shape(MemberCallee("main"), << StringLiteral(Str_slash_p1), StringLiteral(Str_b) >>),
      Shape(MemberCallee("main"), << TruthyLiteral, StringLiteral(Str_a) >>),
      Shape(MemberCallee("remap"), << FalsyLiteral, StringLiteral(Str_path) >>),
      Shape(MemberCallee("builtin"), << StringLiteral(Str_a), StringLiteral(Str_path) >>),
      Shape(MemberCallee("run"), << StringLiteral(Str_path) >>),
      Shape(MemberCallee("log"), << StringLiteral(Str_a) >>),
      Shape(ComputedMemberCallee("def"), << StringLiteral(Str_path), FunctionArg >>),
      Shape(LiteralMemberCallee("def"), << StringLiteral(Str_path), FunctionArg >>),
      Shape(FunctionCallee, << >>),
      Shape(IdentifierCallee, << >>),
      Shape(IdentifierCallee, << StringLiteral(Str_path) >>) }

\* a file that does not parse
BadFile == File(FALSE, 0, 0, << >>)

\* files of one call, with and without text before it
RichFiles == { File(TRUE, 0, lead, << s >>) : lead \in 0..1, s \in RichShapes }

\* files of up to MaxCalls calls, with and without text before the first, and
\* with and without a statement that holds no call
BasicFiles ==
    { File(TRUE, other, lead, shapes) :
        other \in 0..1, lead \in 0..1,
        shapes \in UNION { [1..n -> BasicShapes] : n \in 0..MaxCalls } }

\* calls that hold a call: a def whose factory registers a module, a loader
\* bootstrap that registers a module, a chain m.def().def(..), and a run
\* whose argument is a call
NestedShapes ==
    { Shape(MemberCallee("def"),
            << StringLiteral(Str_path), FunctionArgCalling(MemberCallee("def")) >>),
      Shape(FunctionCalleeCalling(MemberCallee("installed")), << >>),
      Shape(ChainCallee("def", MemberCallee("def")),
            << StringLiteral(Str_path), FunctionArg >>),
      Shape(MemberCallee("run"), << CallArg(IdentifierCallee) >>) }

\* def calls without a factory function: an identifier in its place, and no
\* argument at all
NoFactoryShapes ==
    { Shape(MemberCallee("def"), << StringLiteral(Str_path), IdentifierArg >>),
      Shape(MemberCallee("def"), << >>) }

\* the files of the command lines of two inputs
FewFiles ==
    { BadFile,
      File(TRUE, 0, 0, << >>),
      File(TRUE, 1, 0, << >>),
      File(TRUE, 0, 0, << DefShape(Str_path) >>),
      File(TRUE, 0, 1, << Shape(MemberCallee("installed"),
            << StringLiteral(Str_p1), StringLiteral(Str_a), StringLiteral(Str_1) >>) >>) }
    \cup { File(TRUE, 0, 1, << s >>) : s \in NestedShapes \cup NoFactoryShapes }
    \cup { File(TRUE, 0, 0, << s, DefShape(Str_path) >>) : s \in NestedShapes }
    \cup { File(TRUE, 0, 0, << DefShape(Str_path),
               Shape(MemberCallee("main"), << TruthyLiteral, StringLiteral(Str_a) >>) >>) }

\* the command lines: argv._, each input path standing for the file it names
CommandLines ==
    { << >> } \cup { << f >> : f \in RichFiles \cup BasicFiles \cup { BadFile } }
              \cup { << f, g >> : f \in FewFiles, g \in FewFiles }

(* ------------------------------------------------------------------ *)
(* State                                                               *)
(* ------------------------------------------------------------------ *)

VARIABLES
    input,      \* argv._ : the input files of the command line
    pc,         \* "bin", "parse", "walk", "end", "exited"
    cur,        \* the index in input of the file being processed
    idx,        \* the number of calls the walk has visited
    walkState,  \* the records accumulated by the walk
    manifest,   \* lib/lasso-stats.json on disk
    returned,   \* what parseLassoBundle returned, per processed input
    exitCode,   \* -1 while the process runs, then its exit status
    error,      \* the uncaught exception, "none" when there is none
    usage,      \* the usage message has been printed
    writes      \* the number of times fs.writeFileSync has written the manifest

vars ==
    << input, pc, cur, idx, walkState, manifest, returned, exitCode, error, usage,
       writes >>

\* no manifest file on disk
NoManifest == [exists |-> FALSE, records |-> << >>]

\* an empty list of records returned in the place of "Empty File"
EmptyFileAsNoRecords == [emptyFile |-> FALSE, walkState |-> << >>]

\* "Empty File" and { walkState }
EmptyFileResult == [emptyFile |-> TRUE, walkState |-> << >>]
WalkResult(state) == [emptyFile |-> FALSE, walkState |-> state]

Init ==
    /\ input \in CommandLines
    /\ pc = "bin"
    /\ cur = 0
    /\ idx = 0
    /\ walkState = << >>
    /\ manifest = NoManifest
    /\ returned = << >>
    /\ exitCode = -1
    /\ error = "none"
    /\ usage = FALSE
    /\ writes = 0

(* ------------------------------------------------------------------ *)
(* bin/lasso-unpack.js                                                 *)
(* ------------------------------------------------------------------ *)

\* no input: the usage message and process.exit(1)
BinUsage ==
    /\ pc = "bin"
    /\ Len(input) = 0
    /\ pc' = "exited"
    /\ usage' = TRUE
    /\ exitCode' = 1
    /\ UNCHANGED << input, cur, idx, walkState, manifest, returned, error, writes >>

\* input.map begins with the first file
BinStart ==
    /\ pc = "bin"
    /\ Len(input) > 0
    /\ pc' = "parse"
    /\ cur' = 1
    /\ UNCHANGED << input, idx, walkState, manifest, returned, exitCode, error, usage, writes >>

\* input.map is done: the process ends
BinEnd ==
    /\ pc = "end"
    /\ pc' = "exited"
    /\ exitCode' = 0
    /\ UNCHANGED << input, cur, idx, walkState, manifest, returned, error, usage, writes >>

\* where control goes when parseLassoBundle returns
AfterReturn == IF cur < Len(input) THEN "parse" ELSE "end"

(* ------------------------------------------------------------------ *)
(* lib/lasso-unpack.js: parseLassoBundle                               *)
(* ------------------------------------------------------------------ *)

\* the manifest file is emptied before acorn.parse throws
ParseErrorTruncates ==
    /\ pc = "parse"
    /\ ~input[cur].parses
    /\ pc' = "exited"
    /\ exitCode' = 1
    /\ error' = "SyntaxError"
    /\ manifest' = [exists |-> TRUE, records |-> << >>]
    /\ writes' = writes + 1
    /\ UNCHANGED << input, cur, idx, walkState, returned, usage >>

\* acorn.parse throws: nothing catches it
ParseError ==
    /\ pc = "parse"
    /\ ~input[cur].parses
    /\ pc' = "exited"
    /\ exitCode' = 1
    /\ error' = "SyntaxError"
    /\ UNCHANGED << input, cur, idx, walkState, manifest, returned, usage, writes >>

\* the manifest file is written, with no record, before "Empty File" is
\* returned
EmptyFileWritesManifest ==
    /\ pc = "parse"
    /\ input[cur].parses
    /\ BodyLength(input[cur]) = 0
    /\ walkState' = << >>
    /\ manifest' = [exists |-> TRUE, records |-> << >>]
    /\ writes' = writes + 1
    /\ returned' = Append(returned, EmptyFileResult)
    /\ pc' = AfterReturn
    /\ cur' = cur + 1
    /\ UNCHANGED << input, idx, exitCode, error, usage >>

\* ast.body.length === 0: return "Empty File"
EmptyFile ==
    /\ pc = "parse"
    /\ input[cur].parses
    /\ BodyLength(input[cur]) = 0
    /\ walkState' = << >>
    /\ returned' = Append(returned, EmptyFileResult)
    /\ pc' = AfterReturn
    /\ cur' = cur + 1
    /\ UNCHANGED << input, idx, manifest, exitCode, error, usage, writes >>

\* the walk begins with the walkState the walk before it left
BeginWalkKeepsState ==
    /\ pc = "parse"
    /\ input[cur].parses
    /\ BodyLength(input[cur]) # 0
    /\ idx' = 0
    /\ pc' = "walk"
    /\ UNCHANGED << input, cur, walkState, manifest, returned, exitCode, error, usage, writes >>

\* the walk begins with an empty walkState
BeginWalk ==
    /\ pc = "parse"
    /\ input[cur].parses
    /\ BodyLength(input[cur]) # 0
    /\ walkState' = << >>
    /\ idx' = 0
    /\ pc' = "walk"
    /\ UNCHANGED << input, cur, manifest, returned, exitCode, error, usage, writes >>

\* the visitor writes the manifest file after every push
VisitWritesManifest ==
    /\ pc = "walk"
    /\ idx < Len(Calls(input[cur]))
    /\ LET node == Calls(input[cur])[idx + 1]
       IN  /\ ~CallExpressionThrows(node)
           /\ walkState' = Push(walkState, CallExpression(node, FileContent(input[cur])))
    /\ manifest' = [exists |-> TRUE, records |-> walkState']
    /\ writes' = writes + 1
    /\ idx' = idx + 1
    /\ UNCHANGED << input, pc, cur, returned, exitCode, error, usage >>

\* the visitor of the next call expression
Visit ==
    /\ pc = "walk"
    /\ idx < Len(Calls(input[cur]))
    /\ LET node == Calls(input[cur])[idx + 1]
       IN  /\ ~CallExpressionThrows(node)
           /\ walkState' = Push(walkState, CallExpression(node, FileContent(input[cur])))
    /\ idx' = idx + 1
    /\ UNCHANGED << input, pc, cur, manifest, returned, exitCode, error, usage, writes >>

\* the visitor throws a TypeError: nothing catches it
VisitThrows ==
    /\ pc = "walk"
    /\ idx < Len(Calls(input[cur]))
    /\ CallExpressionThrows(Calls(input[cur])[idx + 1])
    /\ pc' = "exited"
    /\ exitCode' = 1
    /\ error' = "TypeError"
    /\ UNCHANGED << input, cur, idx, walkState, manifest, returned, usage, writes >>

\* the walk is over: write lib/lasso-stats.json and return { walkState }
WriteManifest ==
    /\ pc = "walk"
    /\ idx = Len(Calls(input[cur]))
    /\ manifest' = [exists |-> TRUE, records |-> walkState]
    /\ writes' = writes + 1
    /\ returned' = Append(returned, WalkResult(walkState))
    /\ pc' = AfterReturn
    /\ cur' = cur + 1
    /\ UNCHANGED << input, idx, walkState, exitCode, error, usage >>

\* the manifest file the run leaves for input k: every input's manifest is
\* written to lib/lasso-stats.json, whatever the path of the input
ManifestOf(k) == manifest

\* the records of a file, from its text alone
RecordsOf(file) ==
    [i \in 1..Len(Calls(file)) |-> CallExpression(Calls(file)[i], FileContent(file))]

Next ==
    \/ BinUsage
    \/ BinStart
    \/ BinEnd
    \/ ParseError
    \/ EmptyFile
    \/ BeginWalk
    \/ Visit
    \/ VisitThrows
    \/ WriteManifest

Spec == Init /\ [][Next]_vars

(* ------------------------------------------------------------------ *)
(* Properties                                                          *)
(* ------------------------------------------------------------------ *)

\* the calls of the file being walked; record i of walkState is checked
\* against call i
WalkedCalls == IF pc = "walk" THEN Calls(input[cur]) ELSE << >>

\* the source text of the file being walked
WalkedContent == IF pc = "walk" THEN FileContent(input[cur]) ELSE << >>

\* node is written receiver.verb(...)
IsCallOf(node, verb) ==
    /\ node.callee.type = "MemberExpression"
    /\ ~node.callee.computed
    /\ node.callee.property.type = "Identifier"
    /\ node.callee.property.name = verb

\* argument i (1-based) of node is a string literal
IsStringArg(node, i) ==
    /\ i <= Len(node.arguments)
    /\ node.arguments[i].type = "Literal"
    /\ node.arguments[i].value.kind = "string"

\* the text of a string-literal argument
ArgText(node, i) == node.arguments[i].value.str

\* package names, scopes, versions and sub-path segments as the spec writes
\* them: none holds "/" or "$"
PlainNames == { << "p" >>, << "q" >>, Str_a, Str_b }
PlainVersions == { Str_1, << "2" >> }
ScopeNames == { Str_scope }
PlainSegs == { seg \in SegPool : ~Includes(seg, "$") }
SubPaths == UNION { [1..n -> PlainSegs] : n \in 0..(MaxSegs - 2) }

\* "/name$version/sub/path"
UnscopedPath(name, version, sub) ==
    Join(<< Empty, name \o << "$" >> \o version >> \o sub, "/")

\* "/@scope/name$version/sub/path"
ScopedPath(scope, name, version, sub) ==
    Join(<< Empty, scope, name \o << "$" >> \o version >> \o sub, "/")

\* C1: a def call whose first argument is "/name$version/sub/path", with one
\* "$" in all, gives a record with packageName name, version version and
\* fileName the segments after the package segment joined by "/".
C1_DefUnscoped ==
    pc = "walk" => \A i \in 1..Len(walkState) :
        LET node == WalkedCalls[i]
            rec == walkState[i]
        IN  IsCallOf(node, "def") /\ IsStringArg(node, 1) =>
                \A name \in PlainNames, version \in PlainVersions, sub \in SubPaths :
                    ArgText(node, 1) = UnscopedPath(name, version, sub) =>
                        /\ rec.packageName = name
                        /\ rec.version = version
                        /\ rec.fileName = Join(sub, "/")

\* a def call on "/p$1/a/a" has been visited and its record holds "a/a"
C1_Witness ==
    pc = "walk" /\ \E i \in 1..Len(walkState) :
        /\ IsCallOf(WalkedCalls[i], "def")
        /\ IsStringArg(WalkedCalls[i], 1)
        /\ ArgText(WalkedCalls[i], 1) =
               UnscopedPath(<< "p" >>, Str_1, << Str_a, Str_a >>)
        /\ walkState[i].fileName = << "a", "/", "a" >>

\* C2: a def call whose first argument is "/@scope/name$version/sub/path"
\* gives a record with packageName "@scope/name", version version and
\* fileName "sub/path".
C2_DefScoped ==
    pc = "walk" => \A i \in 1..Len(walkState) :
        LET node == WalkedCalls[i]
            rec == walkState[i]
        IN  IsCallOf(node, "def") /\ IsStringArg(node, 1) =>
                \A scope \in ScopeNames, name \in PlainNames,
                   version \in PlainVersions, sub \in SubPaths :
                    ArgText(node, 1) = ScopedPath(scope, name, version, sub) =>
                        /\ rec.packageName = scope \o << "/" >> \o name
                        /\ rec.version = version
                        /\ rec.fileName = Join(sub, "/")

\* C3: an installed call with three string-literal arguments gives a record
\* with packageName the second argument, version the third and an empty
\* fileName.
C3_Installed ==
    pc = "walk" => \A i \in 1..Len(walkState) :
        LET node == WalkedCalls[i]
            rec == walkState[i]
        IN  /\ IsCallOf(node, "installed")
            /\ IsStringArg(node, 1) /\ IsStringArg(node, 2) /\ IsStringArg(node, 3)
            =>  /\ rec.packageName = ArgText(node, 2)
                /\ rec.version = ArgText(node, 3)
                /\ rec.fileName = Empty

\* the verbs of the registration calls
RecognizedVerbs == { "def", "installed", "main", "remap", "builtin", "run" }

\* node has a registration shape: receiver.verb(...) with a recognized verb,
\* or an immediately invoked function expression
IsRegistration(node) ==
    \/ \E verb \in RecognizedVerbs : IsCallOf(node, verb)
    \/ node.callee.type = "FunctionExpression"

\* C4: only the calls of a registration shape produce a record: the walk
\* holds no more records than it has visited calls of a registration shape.
C4_OnlyRegistrations ==
    pc = "walk" => Len(walkState) <=
        Cardinality({ i \in 1..Len(WalkedCalls) : i <= idx /\ IsRegistration(WalkedCalls[i]) })

\* C5: the records are in the source order of their calls and none is
\* dropped: record i is the record of the i-th call visited, the calls start
\* at increasing offsets, and there is one record per visited call even when
\* two calls carry the same path.
C5_SourceOrder ==
    pc = "walk" =>
        /\ Len(walkState) = idx
        /\ \A i \in 1..Len(walkState) :
               walkState[i] = CallExpression(WalkedCalls[i], WalkedContent)
        /\ \A i, j \in 1..Len(walkState) :
               i < j => WalkedCalls[i].start <= WalkedCalls[j].start

\* two def calls on the same path have been visited and each has its record
C5_Witness ==
    /\ pc = "walk"
    /\ Len(walkState) = 2
    /\ IsCallOf(WalkedCalls[1], "def") /\ IsStringArg(WalkedCalls[1], 1)
    /\ IsCallOf(WalkedCalls[2], "def") /\ IsStringArg(WalkedCalls[2], 1)
    /\ ArgText(WalkedCalls[1], 1) = ArgText(WalkedCalls[2], 1)
    /\ walkState[1].packageName = walkState[2].packageName
    /\ walkState[1].size < walkState[2].size

\* C6: the content of the record of a def call whose second argument is a
\* function expression is the source text from the start offset of the
\* function's body to its end offset.
C6_ContentIsSlice ==
    pc = "walk" => \A i \in 1..Len(walkState) :
        LET node == WalkedCalls[i]
        IN  /\ IsCallOf(node, "def")
            /\ Len(node.arguments) >= 2
            /\ node.arguments[2].type = "FunctionExpression"
            =>  walkState[i].content =
                    SubSeq(WalkedContent, node.arguments[2].body.start + 1,
                           node.arguments[2].body.end)

\* a def call with a factory function has been visited and its record holds
\* the three characters of the body
C6_Witness ==
    pc = "walk" /\ \E i \in 1..Len(walkState) :
        /\ IsCallOf(WalkedCalls[i], "def")
        /\ Len(WalkedCalls[i].arguments) >= 2
        /\ WalkedCalls[i].arguments[2].type = "FunctionExpression"
        /\ Len(walkState[i].content) = 3

\* C7: the size of every record is end - start of its call, and not negative.
C7_SizeIsSpan ==
    pc = "walk" => \A i \in 1..Len(walkState) :
        /\ walkState[i].size >= 0
        /\ walkState[i].size = WalkedCalls[i].end - WalkedCalls[i].start

\* C8: the path of the record of a def call with a string-literal first
\* argument is that argument.
C8_DefPath ==
    pc = "walk" => \A i \in 1..Len(walkState) :
        IsCallOf(WalkedCalls[i], "def") /\ IsStringArg(WalkedCalls[i], 1) =>
            walkState[i].path = ArgText(WalkedCalls[i], 1)

\* the path literals without "$": a first segment and the segments after it,
\* with or without the leading "/"
NoDollarPath(slash, first, rest) ==
    (IF slash THEN << "/" >> ELSE Empty) \o Join(<< first >> \o rest, "/")

\* C9: a def call on a path literal without "$" gives a record with an empty
\* version and with packageName the first segment of the path ("/foo/bar"
\* gives "foo").
C9_DefNoDollar ==
    pc = "walk" => \A i \in 1..Len(walkState) :
        LET node == WalkedCalls[i]
            rec == walkState[i]
        IN  IsCallOf(node, "def") /\ IsStringArg(node, 1) =>
                \A slash \in BOOLEAN, first \in PlainSegs \ { Empty }, rest \in SubPaths :
                    ArgText(node, 1) = NoDollarPath(slash, first, rest) =>
                        /\ rec.version = Empty
                        /\ rec.packageName = first

\* C10: the record of a call whose callee is a function expression has the
\* verb functionExpression, the packageName "module.js" and the path
\* "/module.js".
C10_LoaderBootstrap ==
    pc = "walk" => \A i \in 1..Len(walkState) :
        WalkedCalls[i].callee.type = "FunctionExpression" =>
            /\ walkState[i].type = "functionExpression"
            /\ walkState[i].packageName = << "m", "o", "d", "u", "l", "e", ".", "j", "s" >>
            /\ walkState[i].path = << "/", "m", "o", "d", "u", "l", "e", ".", "j", "s" >>

\* C11: a run call appends no record: no record of the walk has the verb run.
C11_RunNoRecord ==
    pc = "walk" => \A i \in 1..Len(walkState) : walkState[i].type # "run"

\* the record the def rule gives for the path literal P
DefRule(P) == extractLiteralFromDef(NewStats, << StringLiteral(P) >>)

\* C12: the record of a main or remap call with a string-literal first
\* argument P has the packageName, version and fileName that the def rule
\* gives on P.
C12_MainAsDef ==
    pc = "walk" => \A i \in 1..Len(walkState) :
        LET node == WalkedCalls[i]
            rec == walkState[i]
        IN  (IsCallOf(node, "main") \/ IsCallOf(node, "remap")) /\ IsStringArg(node, 1) =>
                /\ rec.packageName = DefRule(ArgText(node, 1)).packageName
                /\ rec.version = DefRule(ArgText(node, 1)).version
                /\ rec.fileName = DefRule(ArgText(node, 1)).fileName

\* C13: the record of a main call on "/name$version" has packageName name and
\* version version, and two main calls with the same first argument have the
\* same packageName, version and fileName whatever their second arguments.
C13_MainIgnoresSecond ==
    pc = "walk" =>
        /\ \A i \in 1..Len(walkState) :
               IsCallOf(WalkedCalls[i], "main") /\ IsStringArg(WalkedCalls[i], 1) =>
                   \A name \in PlainNames, version \in PlainVersions :
                       ArgText(WalkedCalls[i], 1) = UnscopedPath(name, version, << >>) =>
                           /\ walkState[i].packageName = name
                           /\ walkState[i].version = version
        /\ \A i, j \in 1..Len(walkState) :
               /\ IsCallOf(WalkedCalls[i], "main") /\ IsStringArg(WalkedCalls[i], 1)
               /\ IsCallOf(WalkedCalls[j], "main") /\ IsStringArg(WalkedCalls[j], 1)
               /\ ArgText(WalkedCalls[i], 1) = ArgText(WalkedCalls[j], 1)
               =>  /\ walkState[i].packageName = walkState[j].packageName
                   /\ walkState[i].version = walkState[j].version
                   /\ walkState[i].fileName = walkState[j].fileName

\* two main calls on "/p$1" with different second arguments have been visited
C13_Witness ==
    /\ pc = "walk"
    /\ Len(walkState) = 2
    /\ IsCallOf(WalkedCalls[1], "main") /\ IsCallOf(WalkedCalls[2], "main")
    /\ IsStringArg(WalkedCalls[1], 1) /\ IsStringArg(WalkedCalls[2], 1)
    /\ ArgText(WalkedCalls[1], 1) = Str_slash_p1
    /\ ArgText(WalkedCalls[2], 1) = Str_slash_p1
    /\ WalkedCalls[1].arguments[2] # WalkedCalls[2].arguments[2]
    /\ walkState[1].packageName = << "p" >>
    /\ walkState[2].version = Str_1

C15_WalkNeverThrows == error # "TypeError"

\* C16: when the command line has been processed, every input that was walked
\* has its manifest, holding the records of that input.
C16_ManifestPerInput ==
    pc = "exited" /\ exitCode = 0 =>
        \A k \in 1..Len(returned) :
            ~returned[k].emptyFile =>
                /\ ManifestOf(k).exists
                /\ ManifestOf(k).records = returned[k].walkState

\* C17: an input without top-level statements returns the empty-input
\* sentinel, which differs from what any input with statements returns, also
\* one that yields no record.
C17_EmptySentinel ==
    \A j \in 1..Len(returned) :
        BodyLength(input[j]) = 0 =>
            /\ returned[j].emptyFile
            /\ \A k \in 1..Len(returned) :
                   BodyLength(input[k]) # 0 => returned[k] # returned[j]

\* an input without statements and an input with a statement and no call
\* have both returned
C17_Witness ==
    \E j, k \in 1..Len(returned) :
        /\ BodyLength(input[j]) = 0
        /\ BodyLength(input[k]) # 0
        /\ returned[k].walkState = << >>
        /\ error = "none"

\* C18: when the input does not parse, the step ends the operation with the
\* parser's error, produces no record and no result and leaves the manifest
\* file as it was.
C18_ParseErrorNoWrite ==
    [][ pc = "parse" /\ ~input[cur].parses =>
            /\ error' = "SyntaxError"
            /\ pc' = "exited"
            /\ manifest' = manifest
            /\ returned' = returned
            /\ walkState' = walkState ]_vars

\* an input failed to parse after another input's manifest was written
C18_Witness ==
    /\ error = "SyntaxError"
    /\ manifest.exists
    /\ Len(manifest.records) > 0

\* C19: what a walk returns and writes is determined by the text of its input
\* alone: the result for input k is the list of the records of input k, two
\* walks of the same input return the same, and the manifest on disk is the
\* list of the records of one input.
C19_DependsOnInputOnly ==
    /\ \A k \in 1..Len(returned) :
           ~returned[k].emptyFile => returned[k].walkState = RecordsOf(input[k])
    /\ \A j, k \in 1..Len(returned) :
           input[j] = input[k] => returned[j] = returned[k]
    /\ manifest.exists =>
           \E k \in 1..Len(returned) :
               ~returned[k].emptyFile /\ manifest.records = RecordsOf(input[k])

\* the same input has been walked twice and yields a record
C19_Witness ==
    /\ Len(returned) = 2
    /\ input[1] = input[2]
    /\ Len(returned[1].walkState) > 0
    /\ Len(returned[2].walkState) > 0

\* C20: without input paths the process prints the usage message, exits with
\* status 1 and walks no file; with input paths it has invoked the walk for
\* every path when it ends.
C20_WalkPerPath ==
    pc = "exited" =>
        IF Len(input) = 0
        THEN usage /\ exitCode = 1 /\ cur = 0 /\ returned = << >>
        ELSE ~usage /\ cur >= Len(input)

\* C21: a record whose verb is not def has an empty content, in the walk, in
\* what the walk returns and in the manifest file.
C21_ContentOnlyForDef ==
    /\ \A i \in 1..Len(walkState) :
           walkState[i].type # "def" => walkState[i].content = Empty
    /\ \A k \in 1..Len(returned) : \A i \in 1..Len(returned[k].walkState) :
           returned[k].walkState[i].type # "def" =>
               returned[k].walkState[i].content = Empty
    /\ \A i \in 1..Len(manifest.records) :
           manifest.records[i].type # "def" => manifest.records[i].content = Empty

\* a call that is no def call and has a function with a body as its second
\* argument has been visited, and its record has no content
C21_Witness ==
    pc = "walk" /\ \E i \in 1..Len(walkState) :
        /\ walkState[i].type # "def"
        /\ isValidFunctionExpression(WalkedCalls[i].arguments, 1)
        /\ walkState[i].content = Empty

\* node is a def call without a factory function: its second argument is
\* missing, or is no function expression with a body
NoFactory(node) ==
    /\ IsCallOf(node, "def")
    /\ \/ Len(node.arguments) < 2
       \/ node.arguments[2].type # "FunctionExpression"
       \/ ~node.arguments[2].body.present

\* C22: the visit of a def call without a factory function does not throw and
\* appends one record, a def record with an empty content.
C22_NoFactoryNoContent ==
    [][ /\ pc = "walk"
        /\ idx < Len(Calls(input[cur]))
        /\ NoFactory(Calls(input[cur])[idx + 1])
        =>  /\ error' = "none"
            /\ pc' = "walk"
            /\ Len(walkState') = Len(walkState) + 1
            /\ walkState'[Len(walkState')].type = "def"
            /\ walkState'[Len(walkState')].content = Empty ]_vars

\* a def call whose second argument is an arrow function has been visited:
\* its record is there, without content
C22_Witness ==
    pc = "walk" /\ \E i \in 1..Len(walkState) :
        /\ NoFactory(WalkedCalls[i])
        /\ Len(WalkedCalls[i].arguments) = 2
        /\ WalkedCalls[i].arguments[2].type = "ArrowFunctionExpression"
        /\ walkState[i].type = "def"
        /\ walkState[i].content = Empty

\* the fields of rec re-assemble to path: packageName "$" version is a
\* prefix of path after its leading "/", and fileName is what follows that
\* prefix and the "/" after it
Reassembles(rec, path) ==
    LET rest == IF Len(path) > 0 /\ path[1] = "/" THEN Tail(path) ELSE path
        prefix == rec.packageName \o << "$" >> \o rec.version
        n == Len(prefix)
    IN  /\ Len(rest) >= n
        /\ SubSeq(rest, 1, n) = prefix
        /\ IF Len(rest) = n THEN rec.fileName = Empty
           ELSE /\ rest[n + 1] = "/"
                /\ rec.fileName = SubSeq(rest, n + 2, Len(rest))

PackageSegment(path) ==
    LET segs == Split(path, "/") IN segs[validIndex(segs) + 1]

\* the text after the first "$" of seg, empty when seg holds no "$"
AfterFirstDollar(seg) ==
    IF Includes(seg, "$")
    THEN SubSeq(seg, IndexOfChar(seg, "$") + 1, Len(seg))
    ELSE Empty

\* C24: the version of the record of a def call on a path literal is the
\* whole text after the first "$" of the package segment ("q$1$2" gives
\* "1$2"), and is empty when the segment holds no "$".
C24_VersionAfterFirstDollar ==
    pc = "walk" => \A i \in 1..Len(walkState) :
        LET node == WalkedCalls[i]
        IN  IsCallOf(node, "def") /\ IsStringArg(node, 1) =>
                walkState[i].version = AfterFirstDollar(PackageSegment(ArgText(node, 1)))

\* input k has been handed to the walk and the walk of it is over
Processed(k) == k < cur

\* C25: when the process has ended on an input that does not parse, every
\* input after it has been walked.
C25_ParseErrorOnlyThatFile ==
    pc = "exited" /\ error = "SyntaxError" =>
        \A k \in 1..Len(input) : k > cur => Processed(k)

\* C26: the manifest file is written by the step that ends an invocation
\* whose walk has visited every call, once, with the whole list of the
\* records of the input; no other step writes it, and a step that ends the
\* walk with an exception leaves it as it was.
C26_WriteOnceAfterWalk ==
    [][ /\ (writes' # writes \/ manifest' # manifest) =>
               /\ pc = "walk"
               /\ idx = Len(Calls(input[cur]))
               /\ writes' = writes + 1
               /\ manifest'.exists
               /\ manifest'.records = RecordsOf(input[cur])
               /\ returned' = Append(returned, WalkResult(manifest'.records))
        /\ writes' <= Len(returned')
        /\ error' # "none" => writes' = writes /\ manifest' = manifest ]_vars

\* one invocation has walked two calls and written the manifest once, with
\* both records
C26_Witness ==
    /\ Len(input) = 1
    /\ pc = "end"
    /\ writes = 1
    /\ manifest.exists
    /\ Len(manifest.records) = 2
    /\ manifest.records = walkState

\* C27: a record has a verb only when its call is written receiver.verb(...),
\* and the verb is then the name of the accessed property; the record of a
\* call whose callee is a computed access or a plain identifier has no verb
\* and none of the decoded fields.
C27_VerbOnlyForDotAccess ==
    pc = "walk" => \A i \in 1..Len(walkState) :
        LET node == WalkedCalls[i]
            rec == walkState[i]
        IN  /\ rec.type # "" => IsCallOf(node, rec.type)
            /\ \/ node.callee.type = "MemberExpression" /\ node.callee.computed
               \/ node.callee.type = "Identifier"
               =>  /\ rec.type = ""
                   /\ rec.packageName = Empty
                   /\ rec.version = Empty
                   /\ rec.fileName = Empty
                   /\ rec.content = Empty

\* the outermost calls of file that hold a call, by their index
CallsHoldingCalls(file) ==
    { i \in 1..Len(TopLevelCalls(file)) : Len(Children(TopLevelCalls(file)[i])) > 0 }

\* C28: a call written inside the callee or the arguments of another call
\* gives no record: a walk returns as many records as its input has outermost
\* calls, and during the walk record i is the record of the i-th outermost
\* call.
C28_NoDescent ==
    /\ \A k \in 1..Len(returned) :
           ~returned[k].emptyFile =>
               Len(returned[k].walkState) = Len(input[k].shapes)
    /\ pc = "walk" =>
           /\ Len(walkState) <= Len(input[cur].shapes)
           /\ \A i \in 1..Len(walkState) :
                  walkState[i] = CallExpression(TopLevelCalls(input[cur])[i],
                                                FileContent(input[cur]))

\* an input whose first call holds a def call in the body of its factory
\* function, followed by another call, has been walked: two records
C28_Witness ==
    \E k \in 1..Len(returned) :
        /\ Len(input[k].shapes) = 2
        /\ 1 \in CallsHoldingCalls(input[k])
        /\ IsCallOf(TopLevelCalls(input[k])[1], "def")
        /\ Len(TopLevelCalls(input[k])[1].arguments) = 2
        /\ Len(TopLevelCalls(input[k])[1].arguments[2].inner) = 1
        /\ Len(returned[k].walkState) = 2

\* C29: the invocation on an input without top-level statements returns the
\* empty-input sentinel without writing the manifest file, which keeps the
\* content it had.
C29_EmptyInputNoWrite ==
    [][ /\ pc = "parse"
        /\ input[cur].parses
        /\ BodyLength(input[cur]) = 0
        =>  /\ manifest' = manifest
            /\ writes' = writes
            /\ returned' = Append(returned, EmptyFileResult) ]_vars

\* an input without statements has returned after another input's manifest
\* was written, and the file still holds the records of that other input
C29_Witness ==
    /\ Len(returned) = 2
    /\ returned[2].emptyFile
    /\ BodyLength(input[2]) = 0
    /\ manifest.exists
    /\ Len(manifest.records) > 0
    /\ manifest.records = returned[1].walkState

\* C30: a step of the walk leaves the list of records as it is or appends one
\* record at its end, and a visit appends exactly one: the records already in
\* the list keep their content and their place.
C30_RecordsOnlyAppended ==
    [][ pc = "walk" =>
            /\ \/ walkState' = walkState
               \/ /\ Len(walkState') = Len(walkState) + 1
                  /\ SubSeq(walkState', 1, Len(walkState)) = walkState
            /\ idx' # idx =>
                   /\ idx' = idx + 1
                   /\ Len(walkState') = Len(walkState) + 1 ]_vars

\* an installed call and then a def call have been visited: two different
\* records, the first still the one of the installed call
C30_Witness ==
    /\ pc = "walk"
    /\ Len(walkState) = 2
    /\ IsCallOf(WalkedCalls[1], "installed")
    /\ IsCallOf(WalkedCalls[2], "def")
    /\ walkState[1].type = "installed"
    /\ walkState[2].type = "def"
    /\ walkState[1] # walkState[2]

====
